---- MODULE Spec2Model ----
(***************************************************************************)
(* Model of src/attendance.py: the ZKTeco push-protocol server.            *)
(*                                                                         *)
(* Text is modelled as a sequence of one-character strings, so that        *)
(* str.strip, str.splitlines, str.split and str.upper are computed, not    *)
(* assumed.  The SQLite file is modelled by `store` (the committed rows,   *)
(* what every connection reads), `pending[r]` (rows inserted on request    *)
(* r's connection inside its open transaction) and `writer` (the           *)
(* connection that holds SQLite's write lock).                             *)
(***************************************************************************)
EXTENDS Integers, Sequences, FiniteSets, TLC

\* ------------------------------------------------------------------ bounds
\* Requests the devices send in one behaviour, each handled in its own
\* application context, concurrently with the others.
NumRequests == 2
\* Latest value of the clock in a behaviour.
MaxTime == 1
\* Longest upload body, in characters, of the decoder specification.
MaxBody == 5

Slots == 1..NumRequests

\* ------------------------------------------------------------------ text
TAB == "\t"
NL  == "\n"
CR  == "\r"
SP  == " "

\* The characters str.strip() removes, restricted to the model's alphabet.
Whitespace == {SP, TAB, NL, CR}
\* The line boundaries of str.splitlines(), restricted to the model's
\* alphabet.  "\r\n" is one boundary in Python and two here; the extra
\* empty line is dropped by the blank-line filter of line 127.
LineBreaks == {NL, CR}

\* Characters of the bodies the decoder specification enumerates.
Alphabet == {"a", "b", TAB, SP, NL}

\* A plausible slip: rstrip() instead of strip().
StripRightOnly(s) ==
  LET keep == {i \in 1..Len(s) : s[i] \notin Whitespace}
  IN  IF keep = {} THEN <<>>
      ELSE LET hi == CHOOSE i \in keep : \A j \in keep : j <= i
           IN  SubSeq(s, 1, hi)

\* Line 127, s.strip(): drop leading and trailing whitespace.
Strip(s) ==
  LET keep == {i \in 1..Len(s) : s[i] \notin Whitespace}
  IN  IF keep = {} THEN <<>>
      ELSE LET lo == CHOOSE i \in keep : \A j \in keep : i <= j
               hi == CHOOSE i \in keep : \A j \in keep : j <= i
           IN  SubSeq(s, lo, hi)

\* s.split(sep) for a one-character separator (any of seps): the pieces
\* between separators, empty pieces kept.
Split(s, seps) ==
  LET at == {i \in 1..Len(s) : s[i] \in seps}
      n  == Cardinality(at)
      \* the k-th separator from the left; 0 and Len(s) + 1 bracket the text
      sepAt(k) == IF k = 0 THEN 0
                  ELSE IF k = n + 1 THEN Len(s) + 1
                  ELSE CHOOSE i \in at : Cardinality({j \in at : j <= i}) = k
  IN  [k \in 1..(n + 1) |-> SubSeq(s, sepAt(k - 1) + 1, sepAt(k) - 1)]

\* s.splitlines(): as split on the line boundaries, without the empty
\* piece after a final boundary (and [] for the empty string).
SplitLines(s) ==
  LET p == Split(s, LineBreaks)
  IN  IF p[Len(p)] = <<>> THEN SubSeq(p, 1, Len(p) - 1) ELSE p

\* A plausible slip: [ln.strip() for ln in raw_body.splitlines()], the
\* filter `if ln.strip()` forgotten.
LinesUnfiltered(body) ==
  LET raw == SplitLines(body)
  IN  [i \in 1..Len(raw) |-> Strip(raw[i])]

\* Line 127: [ln.strip() for ln in raw_body.splitlines() if ln.strip()]
NonBlankLines(body) ==
  LET raw  == SplitLines(body)
      kept == SelectSeq(raw, LAMBDA ln : Strip(ln) # <<>>)
  IN  [i \in 1..Len(kept) |-> Strip(kept[i])]

\* Line 141: parts = line.split("\t")
Parts(line) == Split(line, {TAB})

\* Line 143: len(parts) >= 2
WellFormed(parts) == Len(parts) >= 2

\* str.upper() on the letters the model's table names use.
UpperMap ==
  [a |-> "A", t |-> "T", l |-> "L", o |-> "O", g |-> "G",
   p |-> "P", e |-> "E", r |-> "R"]
Upper(s) ==
  [i \in 1..Len(s) |-> IF s[i] \in DOMAIN UpperMap THEN UpperMap[s[i]] ELSE s[i]]

ATTLOG == <<"A", "T", "T", "L", "O", "G">>


\* ------------------------------------------------------------------ requests
\* request.args is a dictionary: a function whose domain is the set of the
\* query parameters present.  A value of Absent / AbsentTable in the
\* generators below leaves the key out of the dictionary.
Absent      == "<absent>"
AbsentTable == <<"<absent>">>

MkArgs(sn, options, table) ==
  LET keys == (IF sn = Absent THEN {} ELSE {"SN"})
              \cup (IF options = Absent THEN {} ELSE {"options"})
              \cup (IF table = AbsentTable THEN {} ELSE {"table"})
  IN  [k \in keys |-> CASE k = "SN" -> sn
                        [] k = "options" -> options
                        [] OTHER -> table]

MkRequest(path, method, args, body) ==
  [path |-> path, method |-> method, args |-> args, body |-> body]

NoRequest == MkRequest("", "", MkArgs(Absent, Absent, AbsentTable), <<>>)

CDATA      == "/iclock/cdata"
GETREQUEST == "/iclock/getrequest"
ROOT       == "/"

\* Line 87: args.get("SN", "UNKNOWN")
DeviceSn(args) == IF "SN" \in DOMAIN args THEN args["SN"] ELSE "UNKNOWN"

\* Line 122: (args.get("table") or "").upper()
TableOf(args) == Upper(IF "table" \in DOMAIN args THEN args["table"] ELSE <<>>)

\* A plausible slip: the handshake test without the method.
IsHandshakeAnyMethod(method, args) ==
  "options" \in DOMAIN args /\ args["options"] = "all"

\* Line 94: request.method == "GET" and args.get("options") == "all"
IsHandshake(method, args) ==
  method = "GET" /\ "options" \in DOMAIN args /\ args["options"] = "all"

\* A plausible slip: the upload test without the method.
IsUploadAttlogAnyMethod(method, args) == TableOf(args) = ATTLOG

\* Line 125: request.method == "POST" and table == "ATTLOG"
IsUploadAttlog(method, args) == method = "POST" /\ TableOf(args) = ATTLOG

\* ------------------------------------------------------------------ responses
Response(status, body) == [status |-> status, body |-> body]
NoResponse == Response(0, [text |-> ""])

\* Lines 178, 180, 200, 211: return "OK"
OkBody == [text |-> "OK"]
\* Lines 131, 165, 169, 172: "OK: 0" and f"OK: {count}"
OkCount(n) == [text |-> "OK: ", n |-> n]

\* A plausible slip: the values of Stamp and OpStamp exchanged.
HandshakeBodyStampsSwapped(sn, t) ==
  [lines |-> << <<"GET OPTION FROM: ", sn>>,
                <<"Stamp=", t>>,
                <<"OpStamp=9999">>,
                <<"ErrorDelay=30">>,
                <<"Delay=10">>,
                <<"TransTimes=00:00;23:59">>,
                <<"TransInterval=1">>,
                <<"TransFlag=1111000000">>,
                <<"Realtime=1">>,
                <<"Encrypt=None">> >>]

\* Lines 107-119: the ten lines, joined with "\n".
HandshakeBody(sn, t) ==
  [lines |-> << <<"GET OPTION FROM: ", sn>>,
                <<"Stamp=9999">>,
                <<"OpStamp=", t>>,
                <<"ErrorDelay=30">>,
                <<"Delay=10">>,
                <<"TransTimes=00:00;23:59">>,
                <<"TransInterval=1">>,
                <<"TransFlag=1111000000">>,
                <<"Realtime=1">>,
                <<"Encrypt=None">> >>]

\* What Flask answers when the view function raises, when the method is not
\* in the route's methods, and when no route matches.
ServerError      == Response(500, [text |-> "Internal Server Error"])
MethodNotAllowed == Response(405, [text |-> "Method Not Allowed"])
NotFound         == Response(404, [text |-> "Not Found"])

\* ------------------------------------------------------------------ the store
\* A plausible slip: the row inserted with is_synced 1.
RowMarkedSynced(id, user_id, punch_time, device_serial, b) ==
  [id |-> id, user_id |-> user_id, punch_time |-> punch_time,
   device_serial |-> device_serial, is_synced |-> 1, batch |-> b]

\* Lines 61-70: one row of attendance_logs.  `batch` is the request that
\* inserted the row (not a column: it names the batch in the properties).
\* received_at is not modelled.
Row(id, user_id, punch_time, device_serial, b) ==
  [id |-> id, user_id |-> user_id, punch_time |-> punch_time,
   device_serial |-> device_serial, is_synced |-> 0, batch |-> b]

\* A plausible slip: the key computed from the committed rows alone.
NextIdFromCommitted(st, pend) ==
  LET ids == {st[i].id : i \in 1..Len(st)}
  IN  IF ids = {} THEN 1 ELSE (CHOOSE m \in ids : \A k \in ids : k <= m) + 1

\* Line 63: INTEGER PRIMARY KEY AUTOINCREMENT.  Seen from the connection
\* that inserts: one more than the largest key of the committed rows and of
\* its own uncommitted rows.
NextId(st, pend) ==
  LET ids == {(st \o pend)[i].id : i \in 1..Len(st \o pend)}
  IN  IF ids = {} THEN 1 ELSE (CHOOSE m \in ids : \A k \in ids : k <= m) + 1

\* A plausible slip: a database opened so that writers do not exclude each
\* other.
CanWriteUnlocked(w, r) == TRUE

\* Lines 148-151: SQLite lets a connection write when no other connection
\* holds the write lock (w is the holder, 0 when it is free).
CanWrite(w, r) == w \in {0, r}

\* A plausible slip: isolation_level=None (autocommit), every INSERT is
\* committed at once.
StoreAfterInsertAutocommit(st, row) == Append(st, row)

\* Lines 148-151: an INSERT inside the connection's open transaction leaves
\* the committed rows as they are.
StoreAfterInsert(st, row) == st

\* A plausible slip: the rollback done by hand, deleting the newest rows of
\* the table, as many as the request had inserted.
StoreAfterRollbackDeletesNewest(st, pend) ==
  SubSeq(st, 1, Len(st) - Len(pend))

\* A plausible slip: db.commit() where db.rollback() was meant.
StoreAfterRollbackCommits(st, pend) == st \o pend

\* Lines 161, 167: db.rollback() discards the connection's uncommitted rows.
StoreAfterRollback(st, pend) == st

\* A plausible slip: a unique index on (user_id, punch_time, device_serial)
\* with INSERT OR IGNORE, so that a record already stored is not added.
StoreAfterCommitDeduplicated(st, pend) ==
  st \o SelectSeq(pend, LAMBDA w :
          \A i \in 1..Len(st) :
            <<st[i].user_id, st[i].punch_time, st[i].device_serial>>
              # <<w.user_id, w.punch_time, w.device_serial>>)

\* Line 157: db.commit() makes the connection's uncommitted rows visible.
StoreAfterCommit(st, pend) == st \o pend


\* ------------------------------------------------------------------ state
VARIABLES
  store,     \* the committed rows of attendance_logs, in key order
  writer,    \* the slot whose connection holds SQLite's write lock, or 0
  now,       \* int(time.time())
  pc,        \* per slot: where its handler is
  req,       \* per slot: the request being handled
  lines,     \* per slot: `lines` of line 127
  idx,       \* per slot: index of the next line of the for loop of line 140
  count,     \* per slot: `count`
  skipped,   \* per slot: "Skipping malformed line" warnings logged (line 155)
  pending,   \* per slot: rows inserted on its connection, not yet committed
  conn,      \* per slot: g._database is set (the connection is open)
  resp,      \* per slot: the response
  err,       \* per slot: the step at which storage raised, "none" if none
  failedBefore  \* per slot: an earlier attempt of this request ended in a storage error

vars == <<store, writer, now, pc, req, lines, idx, count, skipped,
          pending, conn, resp, err, failedBefore>>

handlerVars == <<lines, idx, count, skipped, pending, conn, resp, err>>

\* ------------------------------------------------------------------ inputs
BodyOne   == <<"a", TAB, "b">>
BodyMixed == <<"b", NL, "a", TAB, "b", NL, "b", TAB, TAB, "a">>
BodyBad   == <<"a", NL, SP, NL, "b">>
BodyBlank == <<SP, NL>>

\* The requests of the concurrent specification.
SpecRequests ==
  { MkRequest(CDATA, "POST", MkArgs("ABC123", Absent, ATTLOG), BodyMixed),
    MkRequest(CDATA, "POST", MkArgs(Absent, "all", <<"a", "t", "t", "l", "o", "g">>), BodyOne),
    MkRequest(CDATA, "POST", MkArgs("ABC123", Absent, ATTLOG), BodyBad),
    MkRequest(CDATA, "POST", MkArgs("ABC123", Absent, ATTLOG), BodyBlank),
    MkRequest(CDATA, "POST", MkArgs("ABC123", Absent, <<"O", "P", "E", "R", "L", "O", "G">>), BodyOne),
    MkRequest(CDATA, "GET", MkArgs("ABC123", "all", ATTLOG), BodyOne),
    MkRequest(CDATA, "GET", MkArgs("ABC123", Absent, ATTLOG), BodyOne),
    MkRequest(GETREQUEST, "GET", MkArgs("ABC123", Absent, AbsentTable), <<>>),
    MkRequest(GETREQUEST, "POST", MkArgs("ABC123", Absent, AbsentTable), <<>>),
    MkRequest(ROOT, "POST", MkArgs(Absent, Absent, AbsentTable), BodyOne) }

Init ==
  /\ store = <<>>
  /\ writer = 0
  /\ now = 0
  /\ pc = [r \in Slots |-> "idle"]
  /\ req = [r \in Slots |-> NoRequest]
  /\ lines = [r \in Slots |-> <<>>]
  /\ idx = [r \in Slots |-> 1]
  /\ count = [r \in Slots |-> 0]
  /\ skipped = [r \in Slots |-> 0]
  /\ pending = [r \in Slots |-> <<>>]
  /\ conn = [r \in Slots |-> FALSE]
  /\ resp = [r \in Slots |-> NoResponse]
  /\ err = [r \in Slots |-> "none"]
  /\ failedBefore = [r \in Slots |-> FALSE]

\* ------------------------------------------------------------------ actions
\* A fresh application context for request q in slot r.
Begin(r, q) ==
  /\ pc' = [pc EXCEPT ![r] = "received"]
  /\ req' = [req EXCEPT ![r] = q]
  /\ lines' = [lines EXCEPT ![r] = <<>>]
  /\ idx' = [idx EXCEPT ![r] = 1]
  /\ count' = [count EXCEPT ![r] = 0]
  /\ skipped' = [skipped EXCEPT ![r] = 0]
  /\ pending' = [pending EXCEPT ![r] = <<>>]
  /\ conn' = [conn EXCEPT ![r] = FALSE]
  /\ resp' = [resp EXCEPT ![r] = NoResponse]
  /\ err' = [err EXCEPT ![r] = "none"]
  /\ UNCHANGED <<store, writer, now>>

\* A device sends request r; the server starts handling it.
Receive(r, RS) ==
  /\ pc[r] = "idle"
  /\ \E q \in RS : Begin(r, q)
  /\ UNCHANGED failedBefore

\* The device's resend logic: after a response that accepted nothing it sends
\* the identical request again ("retry": it was answered "OK: 0"; "failed":
\* it was answered with an HTTP error).
Retry(r) ==
  /\ pc[r] \in {"retry", "failed"}
  /\ Begin(r, req[r])
  /\ UNCHANGED failedBefore

\* time.time() advances.
Tick ==
  /\ now < MaxTime
  /\ now' = now + 1
  /\ UNCHANGED <<store, writer, pc, req, failedBefore, handlerVars>>

\* The view function returns (or raises): its locals are gone.
Respond(r, rsp) ==
  /\ resp' = [resp EXCEPT ![r] = rsp]
  /\ pc' = [pc EXCEPT ![r] = "responded"]
  /\ lines' = [lines EXCEPT ![r] = <<>>]
  /\ idx' = [idx EXCEPT ![r] = 1]
  /\ count' = [count EXCEPT ![r] = 0]
  /\ skipped' = [skipped EXCEPT ![r] = 0]

\* Lines 80, 186, 206: Flask's routing.  A path without a route is answered
\* 404, a method outside the route's methods 405.
RouteMiss(r) ==
  /\ pc[r] = "received"
  /\ \/ /\ req[r].path \notin {CDATA, GETREQUEST, ROOT}
        /\ Respond(r, NotFound)
     \/ /\ req[r].path = GETREQUEST
        /\ req[r].method # "GET"
        /\ Respond(r, MethodNotAllowed)
  /\ UNCHANGED <<store, writer, now, req, failedBefore, pending, conn, err>>

\* Lines 187-200 and 207-211: getrequest() and root() return "OK".
GetRequestOrRoot(r) ==
  /\ pc[r] = "received"
  /\ \/ req[r].path = GETREQUEST /\ req[r].method = "GET"
     \/ req[r].path = ROOT /\ req[r].method \in {"GET", "POST"}
  /\ Respond(r, Response(200, OkBody))
  /\ UNCHANGED <<store, writer, now, req, failedBefore, pending, conn, err>>

\* Lines 94-119: cdata(), the handshake.
Handshake(r) ==
  /\ pc[r] = "received"
  /\ req[r].path = CDATA
  /\ req[r].method \in {"GET", "POST"}
  /\ IsHandshake(req[r].method, req[r].args)
  /\ Respond(r, Response(200, HandshakeBody(DeviceSn(req[r].args), now)))
  /\ UNCHANGED <<store, writer, now, req, failedBefore, pending, conn, err>>

\* Lines 174-180: cdata(), every other table and every other GET.
AckOther(r) ==
  /\ pc[r] = "received"
  /\ req[r].path = CDATA
  /\ req[r].method \in {"GET", "POST"}
  /\ ~IsHandshake(req[r].method, req[r].args)
  /\ ~IsUploadAttlog(req[r].method, req[r].args)
  /\ Respond(r, Response(200, OkBody))
  /\ UNCHANGED <<store, writer, now, req, failedBefore, pending, conn, err>>

\* Lines 125-135: cdata(), an ATTLOG upload up to the first use of storage.
UploadStart(r) ==
  /\ pc[r] = "received"
  /\ req[r].path = CDATA
  /\ req[r].method \in {"GET", "POST"}
  /\ ~IsHandshake(req[r].method, req[r].args)
  /\ IsUploadAttlog(req[r].method, req[r].args)
  /\ LET ls == NonBlankLines(req[r].body)
     IN  IF ls = <<>>
         THEN Respond(r, Response(200, OkCount(0)))
         ELSE /\ lines' = [lines EXCEPT ![r] = ls]
              /\ pc' = [pc EXCEPT ![r] = "connect"]
              /\ UNCHANGED <<resp, idx, count, skipped>>
  /\ UNCHANGED <<store, writer, now, req, failedBefore,
                 pending, conn, err>>

\* Lines 136-137 and 23-33: get_db() opens the connection, db.cursor().
GetDb(r) ==
  /\ pc[r] = "connect"
  /\ conn' = [conn EXCEPT ![r] = TRUE]
  /\ pc' = [pc EXCEPT ![r] = "loop"]
  /\ UNCHANGED <<store, writer, now, req, failedBefore,
                 lines, idx, count, skipped, pending, resp, err>>

\* Lines 136-137: sqlite3.connect() or db.cursor() raises.  The call is
\* outside the try block of line 139: the exception leaves cdata() and Flask
\* answers 500.
GetDbFail(r) ==
  /\ pc[r] = "connect"
  /\ err' = [err EXCEPT ![r] = "connect"]
  /\ Respond(r, ServerError)
  /\ UNCHANGED <<store, writer, now, req, failedBefore, pending, conn>>


\* The line the for loop of line 140 is at.
CurrentLine(r) == lines[r][idx[r]]

\* Connection r releases SQLite's write lock if it holds it.
Released(r) == IF writer = r THEN 0 ELSE writer

\* Lines 140-153: one iteration on a well-formed line, the INSERT succeeds.
\* The INSERT needs SQLite's write lock: it is taken by the connection's
\* first INSERT and held until its commit, rollback or close.
InsertRow(r) ==
  /\ pc[r] = "loop"
  /\ idx[r] <= Len(lines[r])
  /\ WellFormed(Parts(CurrentLine(r)))
  /\ CanWrite(writer, r)
  /\ LET parts == Parts(CurrentLine(r))
         row   == Row(NextId(store, pending[r]), parts[1], parts[2],
                      DeviceSn(req[r].args), r)
     IN  /\ store' = StoreAfterInsert(store, row)
         /\ pending' = [pending EXCEPT ![r] = Append(@, row)]
  /\ writer' = r
  /\ count' = [count EXCEPT ![r] = @ + 1]
  /\ idx' = [idx EXCEPT ![r] = @ + 1]
  /\ UNCHANGED <<now, pc, req, failedBefore, lines, skipped,
                 conn, resp, err>>

\* Lines 154-155: one iteration on a malformed line.
SkipLine(r) ==
  /\ pc[r] = "loop"
  /\ idx[r] <= Len(lines[r])
  /\ ~WellFormed(Parts(CurrentLine(r)))
  /\ skipped' = [skipped EXCEPT ![r] = @ + 1]
  /\ idx' = [idx EXCEPT ![r] = @ + 1]
  /\ UNCHANGED <<store, writer, now, pc, req, failedBefore, lines,
                 count, pending, conn, resp, err>>

\* Lines 148-151, 160, 166: cursor.execute() raises (the database is locked
\* by another connection, the disk is full, ...): control goes to the
\* except clause, `count` is not incremented.
InsertFail(r) ==
  /\ pc[r] = "loop"
  /\ idx[r] <= Len(lines[r])
  /\ WellFormed(Parts(CurrentLine(r)))
  /\ err' = [err EXCEPT ![r] = "insert"]
  /\ pc' = [pc EXCEPT ![r] = "except"]
  /\ UNCHANGED <<store, writer, now, req, failedBefore, lines, idx,
                 count, skipped, pending, conn, resp>>

\* Lines 157-158 and 172: db.commit() after the loop, return f"OK: {count}".
Commit(r) ==
  /\ pc[r] = "loop"
  /\ idx[r] > Len(lines[r])
  /\ store' = StoreAfterCommit(store, pending[r])
  /\ pending' = [pending EXCEPT ![r] = <<>>]
  /\ writer' = Released(r)
  /\ Respond(r, Response(200, OkCount(count[r])))
  /\ UNCHANGED <<now, req, failedBefore, conn, err>>

\* Lines 157, 160, 166: db.commit() raises.  Without an open transaction
\* (no INSERT was executed) commit() does not touch the database.
CommitFail(r) ==
  /\ pc[r] = "loop"
  /\ idx[r] > Len(lines[r])
  /\ pending[r] # <<>>
  /\ err' = [err EXCEPT ![r] = "commit"]
  /\ pc' = [pc EXCEPT ![r] = "except"]
  /\ UNCHANGED <<store, writer, now, req, failedBefore, lines, idx,
                 count, skipped, pending, conn, resp>>

\* Lines 160-165 and 166-169: db.rollback(), return "OK: 0".
Rollback(r) ==
  /\ pc[r] = "except"
  /\ store' = StoreAfterRollback(store, pending[r])
  /\ pending' = [pending EXCEPT ![r] = <<>>]
  /\ writer' = Released(r)
  /\ Respond(r, Response(200, OkCount(0)))
  /\ UNCHANGED <<now, req, failedBefore, conn, err>>

\* Lines 161, 167: db.rollback() raises inside the except clause: the
\* exception leaves cdata() and Flask answers 500.
RollbackFail(r) ==
  /\ pc[r] = "except"
  /\ Respond(r, ServerError)
  /\ UNCHANGED <<store, writer, now, req, failedBefore, pending, conn, err>>

\* The response to an upload that makes the device send it again: nothing
\* was accepted.
AcceptedNothing(rsp) == rsp = ServerError \/ rsp.body = OkCount(0)

\* Lines 35-43: close_connection() at the end of the application context.
\* Closing a connection discards its uncommitted rows and frees its lock.
\* The response goes out.
Teardown(r) ==
  /\ pc[r] = "responded"
  /\ conn' = [conn EXCEPT ![r] = FALSE]
  /\ pending' = [pending EXCEPT ![r] = <<>>]
  /\ writer' = Released(r)
  /\ IF AcceptedNothing(resp[r])
     THEN /\ pc' = [pc EXCEPT ![r] = IF resp[r] = ServerError THEN "failed" ELSE "retry"]
          /\ failedBefore' = [failedBefore EXCEPT ![r] = @ \/ err[r] # "none"]
     ELSE /\ pc' = [pc EXCEPT ![r] = "done"]
          /\ failedBefore' = [failedBefore EXCEPT ![r] = FALSE]
  /\ resp' = [resp EXCEPT ![r] = NoResponse]
  /\ err' = [err EXCEPT ![r] = "none"]
  /\ UNCHANGED <<store, now, req, lines, idx, count, skipped>>

\* One step of cdata() on an ATTLOG upload, or the teardown of a request.
Upload(r) ==
  \/ UploadStart(r)
  \/ GetDb(r)
  \/ GetDbFail(r)
  \/ InsertRow(r)
  \/ SkipLine(r)
  \/ InsertFail(r)
  \/ Commit(r)
  \/ CommitFail(r)
  \/ Rollback(r)
  \/ RollbackFail(r)
  \/ Teardown(r)

\* One step of a request that does not use storage.
Answer(r) ==
  \/ RouteMiss(r)
  \/ GetRequestOrRoot(r)
  \/ Handshake(r)
  \/ AckOther(r)

\* ------------------------------------------------------------------ Spec
\* Concurrent requests of every kind, re-sent by the devices at will.
Next ==
  \/ \E r \in Slots : Receive(r, SpecRequests)
  \/ \E r \in Slots : Retry(r)
  \/ \E r \in Slots : Answer(r)
  \/ \E r \in Slots : Upload(r)

Spec == Init /\ [][Next]_vars

\* ------------------------------------------------------------------ SpecDecode
\* One ATTLOG upload at a time, its body any text of at most MaxBody
\* characters.
RECURSIVE Texts(_)
Texts(n) ==
  IF n = 0 THEN {<<>>}
  ELSE LET shorter == Texts(n - 1)
       IN  shorter \cup {Append(t, c) : t \in {u \in shorter : Len(u) = n - 1}, c \in Alphabet}

DecodeRequests ==
  { MkRequest(CDATA, "POST", MkArgs(Absent, Absent, ATTLOG), b) : b \in Texts(MaxBody) }

NextDecode ==
  \/ Receive(1, DecodeRequests)
  \/ Upload(1)

SpecDecode == Init /\ [][NextDecode]_vars

\* ------------------------------------------------------------------ SpecClassify
\* One request at a time, of every path, method and combination of query
\* parameters, while the clock advances.
ClassifyRequests ==
  { MkRequest(path, method, MkArgs(sn, options, table), body) :
      path \in {CDATA, GETREQUEST, ROOT, "/iclock/devicecmd"},
      method \in {"GET", "POST"},
      sn \in {Absent, "ABC123"},
      options \in {Absent, "all", "none"},
      table \in {AbsentTable, <<>>, ATTLOG,
                 <<"a", "t", "t", "l", "o", "g">>,
                 <<"A", "t", "t", "L", "o", "g">>,
                 <<"O", "P", "E", "R", "L", "O", "G">>,
                 <<"A", "T", "T", "L", "O", "G", "S">>},
      body \in {<<>>, BodyMixed} }

NextClassify ==
  \/ Receive(1, ClassifyRequests)
  \/ Answer(1)
  \/ Upload(1)
  \/ Tick

SpecClassify == Init /\ [][NextClassify]_vars


\* ------------------------------------------------------------------ SpecLive
\* ATTLOG uploads that carry at least one well-formed line, re-sent by the
\* device, under fairness.
LiveRequests ==
  { MkRequest(CDATA, "POST", MkArgs("ABC123", Absent, ATTLOG), BodyMixed),
    MkRequest(CDATA, "POST", MkArgs(Absent, Absent, ATTLOG), BodyOne) }

NextLive ==
  \/ \E r \in Slots : Receive(r, LiveRequests)
  \/ \E r \in Slots : Retry(r)
  \/ \E r \in Slots : Upload(r)

\* The device sends an upload again every time it was answered "OK: 0".
ResendAfterOkZero(r) == pc[r] = "retry" /\ Retry(r)

\* A storage operation raises.
StorageFailure ==
  \E r \in Slots :
    GetDbFail(r) \/ InsertFail(r) \/ CommitFail(r) \/ RollbackFail(r)

\* The handler of a request keeps running until its response is out, the
\* device re-sends after "OK: 0", and storage failures are not permanent:
\* from some time on no storage operation raises.
Fairness ==
  /\ \A r \in Slots : WF_vars(Upload(r)) /\ WF_vars(ResendAfterOkZero(r))
  /\ <>[][~StorageFailure]_vars

SpecLive == Init /\ [][NextLive]_vars /\ Fairness

\* ------------------------------------------------------------------ SpecHandshake
\* Concurrent requests to the data endpoint that are not ATTLOG uploads,
\* while the clock advances.
HandshakeRequests ==
  { MkRequest(CDATA, "GET", MkArgs(sn, options, AbsentTable), <<>>) :
      sn \in {Absent, "ABC123"}, options \in {Absent, "all"} }
  \cup { MkRequest(CDATA, "POST", MkArgs("ABC123", "all", AbsentTable), BodyOne),
         MkRequest(CDATA, "GET", MkArgs("ABC123", "all", ATTLOG), BodyOne) }

NextHandshake ==
  \/ \E r \in Slots : Receive(r, HandshakeRequests)
  \/ \E r \in Slots : Handshake(r)
  \/ \E r \in Slots : AckOther(r)
  \/ \E r \in Slots : Teardown(r)
  \/ Tick

SpecHandshake == Init /\ [][NextHandshake]_vars

\* ------------------------------------------------------------------ properties
\* The vocabulary of the properties, written without the operators of the
\* model above.

\* The rows of a sequence of rows that request r inserted.
RowsOf(st, r) == SelectSeq(st, LAMBDA w : w.batch = r)

\* The (user_id, punch_time) pairs of a sequence of rows, in order.
Records(rows) == [i \in 1..Len(rows) |-> <<rows[i].user_id, rows[i].punch_time>>]

\* The pieces of s between the characters of seps, read left to right.
RECURSIVE PiecesFrom(_, _, _, _)
PiecesFrom(s, i, cur, seps) ==
  IF i > Len(s) THEN <<cur>>
  ELSE IF s[i] \in seps THEN <<cur>> \o PiecesFrom(s, i + 1, <<>>, seps)
  ELSE PiecesFrom(s, i + 1, Append(cur, s[i]), seps)

IsBlank(s) == \A i \in 1..Len(s) : s[i] \in Whitespace

\* s without its surrounding whitespace.
RECURSIVE Trimmed(_)
Trimmed(s) ==
  IF s = <<>> THEN s
  ELSE IF Head(s) \in Whitespace THEN Trimmed(Tail(s))
  ELSE IF s[Len(s)] \in Whitespace THEN Trimmed(SubSeq(s, 1, Len(s) - 1))
  ELSE s

\* The lines of a body that are not blank, as they are in the body.
RawNonBlankLines(body) ==
  SelectSeq(PiecesFrom(body, 1, <<>>, LineBreaks), LAMBDA l : ~IsBlank(l))

TabFields(line) == PiecesFrom(line, 1, <<>>, {TAB})

\* The records of the well-formed lines among ls, in order, each line split
\* as it is in the body.
RECURSIVE RecordsOfRawLines(_)
RecordsOfRawLines(ls) ==
  IF ls = <<>> THEN <<>>
  ELSE LET f == TabFields(Head(ls))
       IN  (IF Len(f) >= 2 THEN << <<f[1], f[2]>> >> ELSE <<>>)
           \o RecordsOfRawLines(Tail(ls))

\* The same, each line split after trimming its surrounding whitespace.
RECURSIVE RecordsOfTrimmedLines(_)
RecordsOfTrimmedLines(ls) ==
  IF ls = <<>> THEN <<>>
  ELSE LET f == TabFields(Trimmed(Head(ls)))
       IN  (IF Len(f) >= 2 THEN << <<f[1], f[2]>> >> ELSE <<>>)
           \o RecordsOfTrimmedLines(Tail(ls))

\* The records an upload of this body is to store.
AcceptedRecords(body) == RecordsOfTrimmedLines(RawNonBlankLines(body))

\* table is "ATTLOG" in some mix of upper and lower case.
IsAttlogName(t) ==
  /\ Len(t) = 6
  /\ \A i \in 1..6 : t[i] \in {ATTLOG[i], <<"a", "t", "t", "l", "o", "g">>[i]}

\* The request is an Upload-Attlog: a POST to the data endpoint whose table
\* is ATTLOG in any case.
IsAttlogUpload(q) ==
  /\ q.path = CDATA
  /\ q.method = "POST"
  /\ "table" \in DOMAIN q.args
  /\ IsAttlogName(q.args["table"])

\* The handler of request r took the step.
StepOf(r) == <<pc[r], idx[r]>>' # <<pc[r], idx[r]>>


\* ------------------------------------------------------------------ C1
\* C1: when an INSERT of the batch or the commit raises a storage error, the
\* request is answered 200 "OK: 0" and none of its rows is in the store.
C1_FailedUploadRollsBackAndAnswersOkZero ==
  \A r \in Slots :
    (pc[r] = "responded" /\ err[r] \in {"insert", "commit"}) =>
      /\ resp[r] = Response(200, OkCount(0))
      /\ RowsOf(store, r) = <<>>

\* ------------------------------------------------------------------ C2
\* C2: in every state the rows of a batch that are committed (what any other
\* connection reads) are none of the batch or all of its accepted records.
C2_NoPartialBatchVisible ==
  \A r \in Slots :
    \/ RowsOf(store, r) = <<>>
    \/ Records(RowsOf(store, r)) = AcceptedRecords(req[r].body)

\* One upload is in the middle of its batch of two (one row inserted, not
\* visible) while the two rows of another upload are committed.
C2_Witness ==
  \E r, o \in Slots :
    /\ r # o
    /\ pc[r] = "loop"
    /\ Len(pending[r]) = 1
    /\ Len(AcceptedRecords(req[r].body)) = 2
    /\ RowsOf(store, r) = <<>>
    /\ Len(RowsOf(store, o)) = 2

\* ------------------------------------------------------------------ C3
\* C3: every completed ATTLOG upload is answered "OK: <n>" with n the number
\* of rows the request added to the store (so "OK: 0" exactly when it added
\* none).
C3_ResponseCountsRowsAdded ==
  \A r \in Slots :
    (pc[r] = "responded" /\ IsAttlogUpload(req[r])) =>
      \E n \in 0..Len(store) :
        /\ resp[r] = Response(200, OkCount(n))
        /\ n = Len(RowsOf(store, r))

\* ------------------------------------------------------------------ C4
\* C4: whatever storage step fails, an ATTLOG upload is answered with HTTP
\* 200 and a plain-text body.
C4_UploadAlwaysAnswers200 ==
  \A r \in Slots :
    (pc[r] = "responded" /\ IsAttlogUpload(req[r])) =>
      /\ resp[r].status = 200
      /\ "text" \in DOMAIN resp[r].body


\* ------------------------------------------------------------------ C5
\* C5, as claimed: the records inserted so far are those of the non-blank
\* lines examined so far that split, as they are in the body, into at least
\* two tab-separated fields, with user_id field 0 and punch_time field 1.
C5_AcceptedIffRawLineHasTwoFields ==
  pc[1] = "loop" =>
    Records(pending[1]) =
      RecordsOfRawLines(SubSeq(RawNonBlankLines(req[1].body), 1, idx[1] - 1))

\* C5, amended: a non-blank line is accepted iff, after trimming its
\* surrounding whitespace (tabs included), it splits on the tab character
\* into at least two fields; user_id is field 0 and punch_time field 1 of
\* the trimmed line.  A malformed line is skipped and the lines after it are
\* still examined, so an upload that meets no storage error stores the
\* records of all its well-formed lines, in order.
C5_AcceptedIffTrimmedLineHasTwoFields ==
  /\ pc[1] = "loop" =>
       Records(pending[1]) =
         RecordsOfTrimmedLines(SubSeq(RawNonBlankLines(req[1].body), 1, idx[1] - 1))
  /\ (pc[1] = "responded" /\ err[1] = "none") =>
       Records(RowsOf(store, 1)) = AcceptedRecords(req[1].body)

\* The loop has skipped a malformed first line and accepted the well-formed
\* line after it.
C5_Witness ==
  /\ pc[1] = "loop"
  /\ idx[1] = 3
  /\ Len(TabFields(RawNonBlankLines(req[1].body)[1])) = 1
  /\ Len(pending[1]) = 1
  /\ Records(pending[1]) = AcceptedRecords(req[1].body)

\* ------------------------------------------------------------------ C6
\* C6: accepted + skipped is the number of the lines examined, and at the end
\* of the loop the number of lines of the body that are non-blank; a body
\* without a non-blank line never enters the loop (accepted 0, skipped 0); a
\* body of malformed lines only ends the loop with accepted 0, skipped > 0.
C6_AcceptedPlusSkippedIsNonBlank ==
  LET n == Len(RawNonBlankLines(req[1].body))
  IN  /\ pc[1] = "loop" => count[1] + skipped[1] = idx[1] - 1
      /\ (pc[1] = "loop" /\ idx[1] > Len(lines[1])) => count[1] + skipped[1] = n
      /\ n = 0 => /\ pc[1] \notin {"connect", "loop", "except"}
                  /\ count[1] = 0
                  /\ skipped[1] = 0
      /\ (pc[1] = "loop" /\ idx[1] > Len(lines[1]) /\ AcceptedRecords(req[1].body) = <<>>)
           => (count[1] = 0 /\ skipped[1] > 0)

\* The loop has ended on a body of a well-formed line followed by a
\* malformed one.
C6_Witness ==
  /\ pc[1] = "loop"
  /\ idx[1] > Len(lines[1])
  /\ count[1] = 1
  /\ skipped[1] = 1
  /\ Len(TabFields(RawNonBlankLines(req[1].body)[2])) = 1

\* ------------------------------------------------------------------ C7
\* C7: every row of the store has a non-empty user_id and a non-empty
\* punch_time.
C7_StoredFieldsNonEmpty ==
  \A i \in 1..Len(store) :
    /\ store[i].user_id # <<>>
    /\ store[i].punch_time # <<>>

\* ------------------------------------------------------------------ C8
\* C8: on the data endpoint a GET with options=all is answered with the
\* handshake whatever the table; a POST is never answered with the handshake
\* and is an Upload-Attlog (answered "OK: <n>", or 500 when storage raises
\* outside the handler's try block) iff its table is ATTLOG in any case, and
\* gets the plain "OK" otherwise.
C8_Classification ==
  \A r \in Slots :
    (pc[r] = "responded" /\ req[r].path = CDATA) =>
      LET q == req[r]
          isHandshake == "lines" \in DOMAIN resp[r].body
      IN  /\ (q.method = "GET" /\ "options" \in DOMAIN q.args /\ q.args["options"] = "all")
               => (resp[r].status = 200 /\ isHandshake)
          /\ q.method = "POST" =>
               /\ ~isHandshake
               /\ IF "table" \in DOMAIN q.args /\ IsAttlogName(q.args["table"])
                  THEN "n" \in DOMAIN resp[r].body \/ resp[r] = ServerError
                  ELSE resp[r] = Response(200, OkBody)

\* A POST with options=all and table=AttLog has been answered "OK: 2".
C8_Witness ==
  \E r \in Slots :
    /\ pc[r] = "responded"
    /\ req[r].path = CDATA
    /\ req[r].method = "POST"
    /\ "options" \in DOMAIN req[r].args
    /\ req[r].args["options"] = "all"
    /\ "table" \in DOMAIN req[r].args
    /\ req[r].args["table"] = <<"A", "t", "t", "L", "o", "g">>
    /\ resp[r] = Response(200, OkCount(2))

\* ------------------------------------------------------------------ C9
\* C9: every step that changes the store is a step of the handler of an
\* Upload-Attlog request; steps of all other requests leave it unchanged.
C9_OnlyUploadAttlogChangesStore ==
  [][store' # store => \E r \in Slots : StepOf(r) /\ IsAttlogUpload(req[r])]_vars

\* A GET to the data endpoint with table=ATTLOG and a body, without
\* options=all, has been answered "OK" without a row of its own, while the
\* store holds another request's rows.
C9_Witness ==
  \E r \in Slots :
    /\ pc[r] = "responded"
    /\ req[r].path = CDATA
    /\ req[r].method = "GET"
    /\ "options" \notin DOMAIN req[r].args
    /\ "table" \in DOMAIN req[r].args
    /\ req[r].args["table"] = ATTLOG
    /\ req[r].body # <<>>
    /\ resp[r] = Response(200, OkBody)
    /\ store # <<>>
    /\ RowsOf(store, r) = <<>>

\* ------------------------------------------------------------------ C10
\* C10: when an attempt of an upload ended in a storage error and the device
\* sends it again, the attempt that succeeds leaves exactly the request's N
\* accepted records in the store for both attempts together; between the
\* attempts no row and no open transaction of the request is left.
C10_RetryAfterFailureStoresExactlyN ==
  \A r \in Slots :
    /\ (pc[r] = "responded" /\ failedBefore[r] /\ err[r] = "none" /\ resp[r].status = 200)
         => /\ Records(RowsOf(store, r)) = AcceptedRecords(req[r].body)
            /\ resp[r] = Response(200, OkCount(Len(AcceptedRecords(req[r].body))))
    /\ pc[r] \in {"retry", "failed", "received", "connect"}
         => /\ RowsOf(store, r) = <<>>
            /\ pending[r] = <<>>
            /\ writer # r

\* An upload of two well-formed lines that failed before has been answered
\* "OK: 2" and has two rows in the store.
C10_Witness ==
  \E r \in Slots :
    /\ pc[r] = "responded"
    /\ failedBefore[r]
    /\ resp[r] = Response(200, OkCount(2))
    /\ Len(RowsOf(store, r)) = 2


\* ------------------------------------------------------------------ C11
\* C11: in the store, no row of another batch has its key between the keys
\* of two rows of one batch.
C11_BatchKeysNotSplit ==
  \A i, j, k \in 1..Len(store) :
    (store[i].id < store[j].id /\ store[j].id < store[k].id
       /\ store[i].batch = store[k].batch)
      => store[j].batch = store[i].batch

\* Two uploads are in their loops at once: one holds the write lock with a
\* row inserted, the other is at a well-formed line and has inserted none.
C11_Witness ==
  \E r, o \in Slots :
    /\ r # o
    /\ pc[r] = "loop" /\ pc[o] = "loop"
    /\ writer = o
    /\ Len(pending[o]) = 1
    /\ idx[o] <= Len(lines[o])
    /\ idx[r] <= Len(lines[r])
    /\ Len(TabFields(lines[r][idx[r]])) >= 2
    /\ pending[r] = <<>>


\* ------------------------------------------------------------------ C12
\* The request matches no state of the state table: another path, or a
\* method the table does not list for its path.
MatchesNoState(q) ==
  \/ q.path \notin {CDATA, GETREQUEST, ROOT}
  \/ q.path = GETREQUEST /\ q.method # "GET"

\* C12: a request that matches no known state is answered with HTTP 200 and
\* the body "OK".
C12_UnknownRequestAnswersOk ==
  \A r \in Slots :
    (pc[r] = "responded" /\ MatchesNoState(req[r])) =>
      resp[r] = Response(200, OkBody)


\* ------------------------------------------------------------------ C13
\* The request is a handshake: a GET to the data endpoint with options=all.
IsHandshakeRequest(q) ==
  /\ q.path = CDATA
  /\ q.method = "GET"
  /\ "options" \in DOMAIN q.args
  /\ q.args["options"] = "all"

\* The response in slot r is a handshake response.
\* The line is "OpStamp=<integer>".
IsOpStampLine(ln) == Len(ln) = 2 /\ ln[1] = "OpStamp=" /\ ln[2] \in Int

HoldsHandshake(r) ==
  /\ pc[r] = "responded"
  /\ "lines" \in DOMAIN resp[r].body
  /\ Len(resp[r].body.lines) >= 3
  /\ IsOpStampLine(resp[r].body.lines[3])

\* The value of the OpStamp line of a handshake response.
OpStampOf(rsp) == rsp.body.lines[3][2]

\* The ten lines of section 6, for serial number sn: the OpStamp line is
\* left out of the comparison by giving it the response's own value.
TenLines(sn, rsp) ==
  << <<"GET OPTION FROM: ", sn>>,
     <<"Stamp=9999">>,
     <<"OpStamp=", OpStampOf(rsp)>>,
     <<"ErrorDelay=30">>,
     <<"Delay=10">>,
     <<"TransTimes=00:00;23:59">>,
     <<"TransInterval=1">>,
     <<"TransFlag=1111000000">>,
     <<"Realtime=1">>,
     <<"Encrypt=None">> >>

\* Every handshake request is answered 200 with the ten lines in order, the
\* first naming the SN of the query ("UNKNOWN" when absent), the OpStamp a
\* time not after the clock.
HandshakeHasTenLines ==
  \A r \in Slots :
    (pc[r] = "responded" /\ IsHandshakeRequest(req[r])) =>
      /\ resp[r].status = 200
      /\ "lines" \in DOMAIN resp[r].body
      /\ Len(resp[r].body.lines) = 10
      /\ IsOpStampLine(resp[r].body.lines[3])
      /\ resp[r].body.lines =
           TenLines(IF "SN" \in DOMAIN req[r].args THEN req[r].args["SN"] ELSE "UNKNOWN",
                    resp[r])
      /\ OpStampOf(resp[r]) \in 0..now

\* A handshake answered now carries an OpStamp not below that of any
\* handshake response issued before it.
OpStampNotDecreasing ==
  \A r, o \in Slots :
    (pc[r] = "received" /\ HoldsHandshake(o) /\ HoldsHandshake(r)')
      => OpStampOf(resp[o]) <= OpStampOf(resp'[r])

\* C13: a handshake always returns the ten lines in the fixed order, the
\* first "GET OPTION FROM: <SN>", and OpStamp does not decrease across
\* handshakes issued at increasing server times.
C13_HandshakeTenLinesOpStampMonotone ==
  [](HandshakeHasTenLines) /\ [][OpStampNotDecreasing]_vars

\* Two handshake responses are held at once, the later one with a greater
\* OpStamp and for a request without SN.
C13_Witness ==
  \E r, o \in Slots :
    /\ HoldsHandshake(r) /\ HoldsHandshake(o)
    /\ OpStampOf(resp[o]) < OpStampOf(resp[r])
    /\ "SN" \notin DOMAIN req[r].args
    /\ resp[r].body.lines[1] = <<"GET OPTION FROM: ", "UNKNOWN">>
    /\ resp[o].body.lines[1] = <<"GET OPTION FROM: ", "ABC123">>


\* ------------------------------------------------------------------ C14
\* Every row committed before the step is still there after it, with the
\* same fields.
CommittedRowsStay ==
  /\ Len(store') >= Len(store)
  /\ \A i \in 1..Len(store) : store'[i] = store[i]

\* Every committed row has is_synced false.
AllRowsUnsynced == \A i \in 1..Len(store) : store[i].is_synced = 0

\* C14: the store is append-only (a committed row stays, unchanged, in every
\* later state) and every stored row has is_synced = false.
C14_AppendOnlyAndUnsynced ==
  [][CommittedRowsStay]_vars /\ [](AllRowsUnsynced)

\* Rows of one request are committed, and another request's attempt has
\* been rolled back and answered.
C14_Witness ==
  \E r, o \in Slots :
    /\ r # o
    /\ Len(RowsOf(store, o)) >= 2
    /\ pc[r] = "responded"
    /\ err[r] = "insert"
    /\ resp[r] = Response(200, OkCount(0))
    /\ RowsOf(store, r) = <<>>


\* ------------------------------------------------------------------ C15
\* No two committed rows have the same key.
KeysUnique ==
  \A i, j \in 1..Len(store) : i # j => store[i].id # store[j].id

\* The committed rows of request r are the accepted lines of its body, and
\* the row of a later accepted line has the greater key.
BatchKeysIncrease(r) ==
  LET rows == RowsOf(store, r)
  IN  rows # <<>> =>
        /\ Records(rows) = AcceptedRecords(req[r].body)
        /\ \A i, j \in 1..Len(rows) : i < j => rows[i].id < rows[j].id

\* C15: surrogate keys are unique over all stored rows, and within one
\* committed batch they increase strictly in the order of the accepted lines.
C15_KeysUniqueAndIncreasingInBatch ==
  KeysUnique /\ \A r \in Slots : BatchKeysIncrease(r)

\* Two batches are committed, each of two rows.
C15_Witness ==
  /\ Len(store) = 4
  /\ \E r, o \in Slots :
       r # o /\ Len(RowsOf(store, r)) = 2 /\ Len(RowsOf(store, o)) = 2


\* ------------------------------------------------------------------ C16
\* Request r is an ATTLOG upload with at least one well-formed line and has
\* been received.
UploadWithRecordsReceived(r) ==
  /\ pc[r] = "received"
  /\ IsAttlogUpload(req[r])
  /\ AcceptedRecords(req[r].body) # <<>>

\* An upload of request r has been answered "OK: n", n >= 1, and the records
\* of its body are in the store.
UploadAcceptedAndStored(r) ==
  /\ pc[r] = "responded"
  /\ resp[r].status = 200
  /\ resp[r].body = OkCount(Len(AcceptedRecords(req[r].body)))
  /\ Len(AcceptedRecords(req[r].body)) >= 1
  /\ Records(RowsOf(store, r)) = AcceptedRecords(req[r].body)

\* C16: under fairness, with a device that re-sends the batch every time it
\* is answered "OK: 0" and storage failures that are not permanent, an
\* ATTLOG upload with at least one well-formed line is eventually answered
\* "OK: n" with n >= 1 and its accepted records are in the store.
C16_ResentBatchIsEventuallyStored ==
  \A r \in Slots : UploadWithRecordsReceived(r) ~> UploadAcceptedAndStored(r)


\* ------------------------------------------------------------------ C17
\* The upload of request r succeeded: it was answered "OK: n" with n >= 1.
UploadSucceeded(r) ==
  /\ IsAttlogUpload(req[r])
  /\ \/ pc[r] = "done"
     \/ /\ pc[r] = "responded"
        /\ resp[r].status = 200
        /\ \E n \in 1..MaxBody : resp[r].body = OkCount(n)

\* The successful uploads of request q.
SuccessfulUploadsOf(q) == {r \in Slots : req[r] = q /\ UploadSucceeded(r)}

\* The (user_id, punch_time, device_serial) of a row.
TripleOf(w) == <<w.user_id, w.punch_time, w.device_serial>>

\* C17: no deduplication: k successful uploads of the same body with N
\* well-formed lines leave k*N rows for them in the store, each upload the
\* records of its body, whatever is stored already.
C17_NoDeduplication ==
  \A r \in Slots :
    LET same == SuccessfulUploadsOf(req[r])
    IN  UploadSucceeded(r) =>
          /\ Records(RowsOf(store, r)) = AcceptedRecords(req[r].body)
          /\ Len(SelectSeq(store, LAMBDA w : w.batch \in same))
               = Cardinality(same) * Len(AcceptedRecords(req[r].body))

\* Two uploads of the same body of two well-formed lines from the same
\* device succeeded: four rows, the third a duplicate of the first.
C17_Witness ==
  /\ Len(store) = 4
  /\ \E r, o \in Slots :
       /\ r # o /\ req[r] = req[o]
       /\ UploadSucceeded(r) /\ UploadSucceeded(o)
       /\ Len(AcceptedRecords(req[r].body)) = 2
  /\ TripleOf(store[1]) = TripleOf(store[3])
  /\ store[1].id # store[3].id


\* ------------------------------------------------------------------ C18
\* Request o holds an open, uncommitted batch.
HoldsOpenBatch(o) == pc[o] \in {"loop", "except"} /\ pending[o] # <<>>

\* The next step of the upload of request r is the INSERT of a line.
AtInsert(r) ==
  /\ pc[r] = "loop"
  /\ idx[r] <= Len(lines[r])
  /\ Len(TabFields(lines[r][idx[r]])) >= 2

\* The next step of the upload of request r is its commit.
AtCommit(r) == pc[r] = "loop" /\ idx[r] > Len(lines[r])

\* C18: no request waits on another in-flight request: while another ATTLOG
\* upload holds an open, uncommitted batch, an upload can take its next step
\* (insert, commit, respond).
C18_UploadNeverWaits ==
  \A r, o \in Slots :
    (r # o /\ HoldsOpenBatch(o)) =>
      /\ AtInsert(r) => ENABLED InsertRow(r)
      /\ AtCommit(r) => ENABLED Commit(r)
      /\ pc[r] = "responded" => ENABLED Teardown(r)


\* ------------------------------------------------------------------ C19
\* The step is the rollback of the failed upload of request r.
RollbackStepOf(r) == pc[r] = "except" /\ pc'[r] # "except"

\* The rollback of a failed upload leaves every committed row, and every
\* other request's uncommitted rows, as they are.
RollbackKeepsOthersRows ==
  \A r \in Slots :
    RollbackStepOf(r) =>
      /\ store' = store
      /\ \A o \in Slots \ {r} : pending'[o] = pending[o]

\* An upload answered "OK: n", n >= 1, has the records of its whole body in
\* the store, whatever other requests rolled back meanwhile.
CommittedBatchIsFull ==
  \A o \in Slots :
    (pc[o] = "responded" /\ resp[o].status = 200
       /\ \E n \in 1..MaxBody : resp[o].body = OkCount(n))
      => /\ Records(RowsOf(store, o)) = AcceptedRecords(req[o].body)
         /\ resp[o].body = OkCount(Len(RowsOf(store, o)))

\* C19: the rollback of a failed ATTLOG upload discards only that request's
\* own uncommitted rows: no row committed by another request is removed or
\* changed by it, and a concurrent request's later commit stores its full
\* batch.
C19_RollbackDiscardsOwnRowsOnly ==
  [][RollbackKeepsOthersRows]_vars /\ [](CommittedBatchIsFull)

\* A failed upload has been rolled back and answered "OK: 0", and a
\* concurrent upload has committed its two rows and been answered "OK: 2".
C19_Witness ==
  \E r, o \in Slots :
    /\ r # o
    /\ pc[r] = "responded"
    /\ err[r] \in {"insert", "commit"}
    /\ resp[r] = Response(200, OkCount(0))
    /\ RowsOf(store, r) = <<>>
    /\ pc[o] = "responded"
    /\ resp[o] = Response(200, OkCount(2))
    /\ Len(RowsOf(store, o)) = 2

====
